---- MODULE Spec2Model ----
(***************************************************************************)
(* libcron: the scheduling engine Cron<ClockType, LockType> (Cron.h) and   *)
(* its TaskQueue (TaskQueue.h).                                            *)
(*                                                                         *)
(* Time is counted in half seconds, so that a tick can come less than a    *)
(* second after the previous one.  Cron occurrences fall on whole seconds  *)
(* (even values).  Task.h and the cron parser are not part of the sources  *)
(* at hand; Task and the recurrence rule are modelled from the             *)
(* specification (sections 4.1 and 6).                                     *)
(***************************************************************************)
EXTENDS Integers, Sequences, FiniteSets, TLC

VARIABLES
    c,            \* TaskQueue::c, the vector of tasks
    clock,        \* what ClockType::now() returns
    first_tick,   \* Cron::first_tick
    last_tick,    \* Cron::last_tick
    op,           \* the public operation that returned last
    ret,          \* its return value
    started,      \* last tick: the tasks expired when the execution pass began
    fired,        \* last tick: the tasks executed, in execution order
    retired,      \* last tick: the executed tasks whose recomputation failed
    removed,      \* last tick: the tasks the pass erased from the queue
    drift,        \* last tick: TRUE iff it took the >= 3 hours branch
    small_steps,  \* every two consecutive tick times so far differ by < 3 hours
    small_drift,  \* every non-first tick so far had |now - last_tick| < 3 hours
    owner,        \* the thread that holds Locker::m, 0 if none does
    holds,        \* how many times the owner has locked Locker::m
    stack,        \* for each thread, the calls it is in, the innermost last
    fault         \* TRUE once the pass has used a task that was destroyed
\* started, fired, retired and removed name a task by its index in the queue at
\* the beginning of the execution pass.

vars == <<c, clock, first_tick, last_tick, op, ret, started, fired,
          retired, removed, drift, small_steps, small_drift,
          owner, holds, stack, fault>>

----------------------------------------------------------------------------
(* Bounds of the model *)

\* the queue holds at most MaxTasks tasks
MaxTasks == 2
\* the clock takes the values 1..Span ...
Span == 4
\* ... and ThreeHours+1..ThreeHours+LateSpan
LateSpan == 2
\* Locker::m is locked at most MaxHolds times over
MaxHolds == 3

(* Program constants, in half seconds *)
OneSecond == 2
ThreeHours == 21600

Times == (1 .. Span) \cup ((ThreeHours + 1) .. (ThreeHours + LateSpan))

Names == {"a", "b"}

\* the threads of the host
Threads == {1, 2}
\* the iteration order of std::map<std::string, std::string>
NameOrder == <<"a", "b">>

\* a time after every time of the model: a rule that lasts until Forever never runs out
Forever == 4 * ThreeHours

\* The schedule strings, and what CronData::create makes of each.  A valid
\* rule has its occurrences at the multiples of `period` up to `last`.
Schedules == {"every second", "every 2 seconds", "until 1s", "malformed"}

create(schedule) ==
    CASE schedule = "every second" ->
            [valid |-> TRUE, period |-> OneSecond, last |-> Forever]
      [] schedule = "every 2 seconds" ->
            [valid |-> TRUE, period |-> 2 * OneSecond, last |-> Forever]
      [] schedule = "until 1s" ->
            [valid |-> TRUE, period |-> OneSecond, last |-> OneSecond]
      [] OTHER ->
            [valid |-> FALSE, period |-> 1, last |-> 0]

Abs(x) == IF x < 0 THEN -x ELSE x

Range(s) == {s[i] : i \in 1 .. Len(s)}

----------------------------------------------------------------------------
(* The recurrence rule and Task *)

\* CronData::is_valid
is_valid(cron) == cron.valid

\* CronSchedule::calculate_from: the earliest occurrence strictly after `from`
calculate_from(cron, from) ==
    LET n == ((from \div cron.period) + 1) * cron.period
    IN  IF n <= cron.last THEN <<TRUE, n>> ELSE <<FALSE, 0>>

\* Task::calculate_next: on failure the task is marked, its next_schedule is absent
calculate_next(t, from) ==
    LET r == calculate_from(t.schedule, from)
    IN  IF r[1] THEN [t EXCEPT !.valid = TRUE, !.next_schedule = r[2]]
                ELSE [t EXCEPT !.valid = FALSE]

\* Task::is_expired: next_fire <= now (an absent next_fire is not)
is_expired(t, now) == t.valid /\ t.next_schedule <= now

\* Task::time_until_expiry
time_until_expiry(t, now) == t.next_schedule - now

\* Task::operator<
TaskLess(a, b) == a.next_schedule < b.next_schedule

\* Task::Task.  `promised` is history: the occurrence the task was given when
\* it last ran, 0 if there is none.
NewTask(name, cron) ==
    [name |-> name, schedule |-> cron, next_schedule |-> 0, valid |-> FALSE,
     promised |-> 0]

----------------------------------------------------------------------------
(* TaskQueue *)

\* TaskQueue::push, both overloads
push(q, ts) == q \o ts

Sorted(q) == \A i \in 1 .. Len(q) - 1 : ~TaskLess(q[i + 1], q[i])

\* the sorted sequences made of the sorted sequence p and the task x
Insert(p, x) ==
    {SubSeq(p, 1, k) \o <<x>> \o SubSeq(p, k + 1, Len(p)) :
        k \in {j \in 0 .. Len(p) :
                  /\ j = 0 \/ ~TaskLess(x, p[j])
                  /\ j = Len(p) \/ ~TaskLess(p[j + 1], x)}}

RECURSIVE SortedOrders(_, _)
SortedOrders(q, n) ==
    IF n = 0 THEN {<<>>}
    ELSE UNION {Insert(p, q[n]) : p \in SortedOrders(q, n - 1)}

\* TaskQueue::sort: std::sort leaves the order of equal elements open
sort(q) == SortedOrders(q, Len(q))

\* std::find_if over c: the first index whose task has the name, 0 for end()
find_name(q, name) ==
    IF \E i \in 1 .. Len(q) : q[i].name = name
    THEN CHOOSE i \in 1 .. Len(q) :
            /\ q[i].name = name
            /\ \A j \in 1 .. i - 1 : q[j].name # name
    ELSE 0

\* std::vector::erase
erase(q, k) == SubSeq(q, 1, k - 1) \o SubSeq(q, k + 1, Len(q))

\* a faulty remove: it erases the last task of that name, not the first
remove_last(q, name) ==
    IF \E i \in 1 .. Len(q) : q[i].name = name
    THEN erase(q, CHOOSE i \in 1 .. Len(q) :
                     /\ q[i].name = name
                     /\ \A j \in (i + 1) .. Len(q) : q[j].name # name)
    ELSE q

\* TaskQueue::remove(Task&) and TaskQueue::remove(std::string)
remove(q, name) ==
    LET it == find_name(q, name)
    IN  IF it # 0 THEN erase(q, it) ELSE q

\* TaskQueue::top
top(q) == q[1]

----------------------------------------------------------------------------
(* Cron: the state after construction *)

Init ==
    /\ c = <<>>
    /\ clock \in Times
    /\ first_tick = TRUE
    /\ last_tick = 0
    /\ op = "init"
    /\ ret = <<>>
    /\ started = {}
    /\ fired = <<>>
    /\ retired = {}
    /\ removed = {}
    /\ drift = FALSE
    /\ small_steps = TRUE
    /\ small_drift = TRUE
    /\ owner = 0
    /\ holds = 0
    /\ stack = [th \in Threads |-> <<>>]
    /\ fault = FALSE

\* an operation taken as a whole: one thread, its lock released when it returns
Whole == UNCHANGED <<owner, holds, stack, fault>>

\* what an operation other than tick leaves of the last tick's record
NoTick ==
    /\ started' = {}
    /\ fired' = <<>>
    /\ retired' = {}
    /\ removed' = {}
    /\ drift' = FALSE
    /\ UNCHANGED <<clock, first_tick, last_tick, small_steps, small_drift>>
    /\ Whole

----------------------------------------------------------------------------
(* Cron::add_schedule(name, schedule, work) *)

\* a faulty add_schedule: it builds and queues the task whatever is_valid says
add_schedule_unchecked(q, now, name, schedule) ==
    LET cron == create(schedule)
        t == calculate_next(NewTask(name, cron), now)
    IN  [res |-> is_valid(cron), qs |-> sort(push(q, <<t>>))]

\* a faulty add_schedule: it reports failure when the task has no occurrence left
add_schedule_strict(q, now, name, schedule) ==
    LET cron == create(schedule)
        t == calculate_next(NewTask(name, cron), now)
    IN  IF is_valid(cron) /\ t.valid
        THEN [res |-> TRUE, qs |-> sort(push(q, <<t>>))]
        ELSE [res |-> FALSE, qs |-> {q}]

\* the result and the queue after the call: in `qs`, one queue for each order
\* std::sort may leave
add_schedule(q, now, name, schedule) ==
    LET cron == create(schedule)
        res == is_valid(cron)
    IN  IF res
        THEN LET t == calculate_next(NewTask(name, cron), now)
             IN  [res |-> res, qs |-> IF t.valid THEN sort(push(q, <<t>>)) ELSE {q}]
        ELSE [res |-> res, qs |-> {q}]

AddSchedule(name, schedule) ==
    LET r == add_schedule(c, clock, name, schedule)
    IN  /\ \A q \in r.qs : Len(q) <= MaxTasks
        /\ c' \in r.qs
        /\ op' = "add_schedule"
        /\ ret' = r.res
        /\ NoTick

----------------------------------------------------------------------------
(* Cron::add_schedule(name_schedule_map, work) *)

\* the keys of the map in iteration order
Entries(m) == SelectSeq(NameOrder, LAMBDA n : n \in DOMAIN m)

\* the validation loop: stops at the first invalid entry
RECURSIVE bulk_loop(_, _, _, _)
bulk_loop(m, now, i, acc) ==
    LET es == Entries(m)
    IN  IF ~(acc.is_valid /\ i <= Len(es)) THEN acc
        ELSE LET name == es[i]
                 schedule == m[name]
                 cron == create(schedule)
             IN  IF is_valid(cron)
                 THEN LET t == calculate_next(NewTask(name, cron), now)
                      IN  bulk_loop(m, now, i + 1,
                              IF t.valid
                              THEN [acc EXCEPT !.tasks_to_add = Append(@, t)]
                              ELSE acc)
                 ELSE bulk_loop(m, now, i + 1,
                          [acc EXCEPT !.is_valid = FALSE, !.name = name,
                                      !.schedule = schedule])

bulk_validate(m, now) ==
    bulk_loop(m, now, 1,
              [is_valid |-> TRUE, name |-> "", schedule |-> "", tasks_to_add |-> <<>>])

\* a faulty bulk add_schedule: it inserts what it built before the invalid entry
add_schedules_partial(q, now, m) ==
    LET v == bulk_validate(m, now)
    IN  [res |-> <<v.is_valid, v.name, v.schedule>>,
         qs  |-> IF Len(v.tasks_to_add) > 0
                 THEN sort(push(q, v.tasks_to_add))
                 ELSE {q}]

\* the result and the queue after the call
add_schedules(q, now, m) ==
    LET v == bulk_validate(m, now)
    IN  [res |-> <<v.is_valid, v.name, v.schedule>>,
         qs  |-> IF v.is_valid /\ Len(v.tasks_to_add) > 0
                 THEN sort(push(q, v.tasks_to_add))
                 ELSE {q}]

Maps == UNION {[S -> Schedules] : S \in SUBSET Names}

AddSchedules(m) ==
    LET r == add_schedules(c, clock, m)
    IN  /\ \A q \in r.qs : Len(q) <= MaxTasks
        /\ c' \in r.qs
        /\ op' = "add_schedules"
        /\ ret' = r.res
        /\ NoTick

----------------------------------------------------------------------------
(* Cron::clear_schedules, Cron::remove_schedule, Cron::recalculate_schedule *)

ClearSchedules ==
    /\ c' = <<>>
    /\ op' = "clear_schedules"
    /\ ret' = <<>>
    /\ NoTick

RemoveSchedule(name) ==
    /\ c' = remove(c, name)
    /\ op' = "remove_schedule"
    /\ ret' = <<>>
    /\ NoTick

recalculate_schedule(q, now) ==
    sort([i \in 1 .. Len(q) |->
             [calculate_next(q[i], now + OneSecond) EXCEPT !.promised = 0]])

RecalculateSchedule ==
    /\ c' \in recalculate_schedule(c, clock)
    /\ op' = "recalculate_schedule"
    /\ ret' = <<>>
    /\ NoTick

----------------------------------------------------------------------------
(* Cron::time_until_next *)

\* std::numeric_limits<std::chrono::minutes>::max(): numeric_limits has no
\* specialization for a duration, and its primary template returns T(), the
\* zero duration
numeric_limits_minutes_max == 0

time_until_next ==
    IF c = <<>> THEN numeric_limits_minutes_max
    ELSE time_until_expiry(top(c), clock)

TimeUntilNext ==
    /\ c' = c
    /\ op' = "time_until_next"
    /\ ret' = time_until_next
    /\ NoTick

----------------------------------------------------------------------------
(* Cron::tick(now) *)

\* the sub-second debounce: the time the tick goes by
debounce(first, now, last) ==
    IF ~first /\ now - last < OneSecond /\ now - last > -OneSecond THEN last ELSE now

\* a faulty clock_changed: the three hours taken a second short
clock_changed_early(first, now, last) ==
    ~first /\ Abs(now - last) >= ThreeHours - OneSecond

\* TRUE iff the tick takes the branch of a clock change of three hours or more
clock_changed(first, now, last) ==
    ~first /\ Abs(now - last) >= ThreeHours

\* a faulty drift_correct: it recomputes from last_tick instead of now
drift_correct_from_last(q, first, now, last) ==
    IF clock_changed(first, now, last)
    THEN [i \in 1 .. Len(q) |-> calculate_next(q[i], last)]
    ELSE q

\* the queue when the execution pass begins
drift_correct(q, first, now, last) ==
    IF clock_changed(first, now, last)
    THEN [i \in 1 .. Len(q) |-> calculate_next(q[i], now)]
    ELSE q

\* Task::execute followed by the recomputation
run_task(t, now) ==
    LET u == calculate_next(t, now + OneSecond)
    IN  IF u.valid THEN [u EXCEPT !.promised = u.next_schedule] ELSE u

\* the execution pass from index i on (indices from 1); acc.pos[k] is the
\* index acc.q[k] had when the pass began
RECURSIVE execute_pass(_, _, _)
execute_pass(acc, i, now) ==
    IF i > Len(acc.q) THEN acc
    ELSE IF is_expired(acc.q[i], now)
         THEN LET t == run_task(acc.q[i], now)
                  q1 == [acc.q EXCEPT ![i] = t]
                  it == find_name(q1, t.name)
              IN  execute_pass(
                      [q       |-> IF ~t.valid THEN remove(q1, t.name) ELSE q1,
                       pos     |-> IF ~t.valid THEN erase(acc.pos, it) ELSE acc.pos,
                       res     |-> acc.res + 1,
                       fired   |-> Append(acc.fired, acc.pos[i]),
                       retired |-> IF ~t.valid THEN acc.retired \cup {acc.pos[i]}
                                               ELSE acc.retired],
                      i + 1, now)
         ELSE execute_pass(acc, i + 1, now)

\* the whole pass over the queue q
tick_pass(q, now) ==
    execute_pass([q |-> q, pos |-> [i \in 1 .. Len(q) |-> i], res |-> 0,
                  fired |-> <<>>, retired |-> {}], 1, now)

\* the queue as tick leaves it: sorted only if a task was executed
tick_sort(q, res) == IF res > 0 THEN sort(q) ELSE {q}

\* without history, `promised` stays 0
Forget(q) == [i \in 1 .. Len(q) |-> [q[i] EXCEPT !.promised = 0]]

\* The host moves the clock to t and calls tick(); `history` says whether
\* promised, small_steps and small_drift are recorded.
TickAt(t, history) ==
    LET now == debounce(first_tick, t, last_tick)
        q0 == drift_correct(c, first_tick, now, last_tick)
        r == tick_pass(q0, now)
    IN  /\ clock' = t
        /\ first_tick' = FALSE
        /\ last_tick' = now
        /\ c' \in tick_sort(IF history THEN r.q ELSE Forget(r.q), r.res)
        /\ op' = "tick"
        /\ ret' = r.res
        /\ started' = {i \in 1 .. Len(q0) : is_expired(q0[i], now)}
        /\ fired' = r.fired
        /\ retired' = r.retired
        /\ removed' = (1 .. Len(q0)) \ Range(r.pos)
        /\ drift' = clock_changed(first_tick, now, last_tick)
        /\ small_steps' =
              IF history
              THEN small_steps /\ (first_tick \/ Abs(t - clock) < ThreeHours)
              ELSE small_steps
        /\ small_drift' =
              IF history
              THEN small_drift /\ (first_tick \/ Abs(now - last_tick) < ThreeHours)
              ELSE small_drift
        /\ Whole

Tick(t) == TickAt(t, FALSE)

TickHistory(t) == TickAt(t, TRUE)

----------------------------------------------------------------------------

Next ==
    \/ \E name \in Names, schedule \in Schedules : AddSchedule(name, schedule)
    \/ \E m \in Maps : AddSchedules(m)
    \/ ClearSchedules
    \/ \E name \in Names : RemoveSchedule(name)
    \/ RecalculateSchedule
    \/ TimeUntilNext
    \/ \E t \in Times : Tick(t)

Spec == Init /\ [][Next]_vars

\* ticks alone, on schedules added one by one, with the history recorded
NextTicks ==
    \/ \E name \in Names, schedule \in Schedules : AddSchedule(name, schedule)
    \/ \E t \in Times : TickHistory(t)

SpecTicks == Init /\ [][NextTicks]_vars

----------------------------------------------------------------------------
(* The operations step by step: threads, Locker and work items *)

\* What a work item does: nothing, a call of add_schedule or of
\* remove_schedule on the engine that runs it, or it throws.
Works == {"none", "add_schedule", "remove_schedule", "throw"}
\* the call the work item "add_schedule" makes
WorkAdds == [name |-> "b", schedule |-> "every second", work |-> "none"]
\* the name the work item "remove_schedule" removes
WorkRemoves == "a"

\* the rules and the tick times of the stepwise specification
StepSchedules == {"every second", "until 1s"}
StepTimes == {OneSecond}

\* the operations that only read the queue
Reads == {"count", "time_until_next", "get_time_until_expiry_for_tasks"}

\* a faulty Locker::lock: it returns at once, as NullLock::lock does
NullLock_lock(o, th) == TRUE

\* Locker::lock, std::recursive_mutex::lock: returns when the mutex is free or
\* the calling thread owns it
Locker_lock(o, th) == o = 0 \/ o = th

\* a call at the step pc; its arguments are drawn when the operation first
\* uses them
Frame(o, pc) ==
    [op |-> o, pc |-> pc, i |-> 0, res |-> 0, t |-> 0, calls |-> 0,
     started |-> {}, fired |-> <<>>]

Operations ==
    {"tick", "add_schedule", "remove_schedule", "clear_schedules",
     "recalculate_schedule", "count", "time_until_next",
     "get_time_until_expiry_for_tasks"}

\* the innermost call of thread th
frame(th) == stack[th][Len(stack[th])]

SetFrame(th, f) == [stack EXCEPT ![th] = [@ EXCEPT ![Len(@)] = f]]

\* the tasks of the stepwise specification carry their work item and an id,
\* the identity of the Task object a reference refers to
Ids(q) == {q[k].id : k \in 1 .. Len(q)}

IndexOf(q, id) == CHOOSE k \in 1 .. Len(q) : q[k].id = id

StepTask(name, schedule, work, q) ==
    NewTask(name, create(schedule))
        @@ [work |-> work, id |-> CHOOSE k \in 1 .. (MaxTasks + 1) :
                                     /\ k \notin Ids(q)
                                     /\ \A j \in 1 .. (k - 1) : j \in Ids(q)]

\* the first step of each operation after lock_queue
Body(o) ==
    CASE o = "tick" -> "drift"
      [] o = "add_schedule" -> "push"
      [] o = "remove_schedule" -> "remove"
      [] o = "clear_schedules" -> "clear"
      [] o = "recalculate_schedule" -> "recalculate"
      [] OTHER -> "read"

History == UNCHANGED <<op, ret, started, fired, retired, removed, drift,
                       small_steps, small_drift>>

\* thread th, which is in no call, calls the operation o, and lock_queue
\* returns: a thread that waits for the mutex does nothing else
Call(th, o) ==
    /\ stack[th] = <<>>
    /\ Locker_lock(owner, th)
    /\ holds < MaxHolds
    /\ owner' = th
    /\ holds' = holds + 1
    /\ stack' = [stack EXCEPT ![th] = <<Frame(o, Body(o))>>]
    /\ UNCHANGED <<c, clock, first_tick, last_tick, fault>>
    /\ History

\* TaskQueue::lock_queue in a call that a work item made
LockQueue(th) ==
    /\ stack[th] # <<>>
    /\ frame(th).pc = "lock"
    /\ Locker_lock(owner, th)
    /\ holds < MaxHolds
    /\ owner' = th
    /\ holds' = holds + 1
    /\ stack' = SetFrame(th, [frame(th) EXCEPT !.pc = Body(frame(th).op)])
    /\ UNCHANGED <<c, clock, first_tick, last_tick, fault>>
    /\ History

\* TaskQueue::release_queue, and the return of the operation
ReleaseQueue(th) ==
    /\ stack[th] # <<>>
    /\ frame(th).pc = "release"
    /\ holds' = holds - 1
    /\ owner' = IF holds = 1 THEN 0 ELSE owner
    /\ stack' = [stack EXCEPT ![th] = SubSeq(@, 1, Len(@) - 1)]
    /\ UNCHANGED <<c, clock, first_tick, last_tick, fault>>
    /\ History

\* a step of thread th in the operation o at pc, with the queue locked
At(th, o, pc) ==
    /\ stack[th] # <<>>
    /\ frame(th).op = o
    /\ frame(th).pc = pc

Locked == UNCHANGED <<clock, owner, holds>> /\ History

\* the arguments of a call of add_schedule: the host's, or the work item's
AddArguments(th) ==
    IF Len(stack[th]) > 1 THEN {WorkAdds}
    ELSE [name : Names, schedule : StepSchedules, work : Works]

\* the name a call of remove_schedule is given: the host's, or the work item's
RemoveArguments(th) == IF Len(stack[th]) > 1 THEN {WorkRemoves} ELSE Names

\* add_schedule: the task is made and pushed
AddPush(th) ==
    /\ At(th, "add_schedule", "push")
    /\ Len(c) < MaxTasks
    /\ \E a \in AddArguments(th) :
          LET t == calculate_next(StepTask(a.name, a.schedule, a.work, c), clock)
          IN  /\ c' = IF t.valid THEN push(c, <<t>>) ELSE c
              /\ stack' = SetFrame(th, [frame(th) EXCEPT
                                           !.pc = IF t.valid THEN "sort" ELSE "release"])
    /\ UNCHANGED <<first_tick, last_tick, fault>>
    /\ Locked

\* add_schedule: tasks.sort()
AddSort(th) ==
    /\ At(th, "add_schedule", "sort")
    /\ c' \in sort(c)
    /\ stack' = SetFrame(th, [frame(th) EXCEPT !.pc = "release"])
    /\ UNCHANGED <<first_tick, last_tick, fault>>
    /\ Locked

\* remove_schedule: tasks.remove(name)
Remove(th) ==
    /\ At(th, "remove_schedule", "remove")
    /\ \E name \in RemoveArguments(th) : c' = remove(c, name)
    /\ stack' = SetFrame(th, [frame(th) EXCEPT !.pc = "release"])
    /\ UNCHANGED <<first_tick, last_tick, fault>>
    /\ Locked

\* clear_schedules: tasks.clear()
Clear(th) ==
    /\ At(th, "clear_schedules", "clear")
    /\ c' = <<>>
    /\ stack' = SetFrame(th, [frame(th) EXCEPT !.pc = "release"])
    /\ UNCHANGED <<first_tick, last_tick, fault>>
    /\ Locked

\* recalculate_schedule: the loop and tasks.sort()
Recalculate(th) ==
    /\ At(th, "recalculate_schedule", "recalculate")
    /\ c' \in recalculate_schedule(c, clock)
    /\ stack' = SetFrame(th, [frame(th) EXCEPT !.pc = "release"])
    /\ UNCHANGED <<first_tick, last_tick, fault>>
    /\ Locked

\* count, time_until_next, get_time_until_expiry_for_tasks: the queue is read
Read(th) ==
    /\ stack[th] # <<>>
    /\ frame(th).op \in Reads
    /\ frame(th).pc = "read"
    /\ stack' = SetFrame(th, [frame(th) EXCEPT !.pc = "release"])
    /\ UNCHANGED <<c, first_tick, last_tick, fault>>
    /\ Locked

\* tick: the debounce, the three hours branch, last_tick = now
TickDrift(th) ==
    /\ At(th, "tick", "drift")
    /\ \E t \in StepTimes :
          LET now == debounce(first_tick, t, last_tick)
              q0 == drift_correct(c, first_tick, now, last_tick)
          IN  /\ clock' = t
              /\ c' = q0
              /\ first_tick' = FALSE
              /\ last_tick' = now
              /\ stack' = SetFrame(th,
                    [frame(th) EXCEPT
                        !.i = 1,
                        !.started = {q0[k].id : k \in {j \in 1 .. Len(q0) :
                                                         is_expired(q0[j], now)}},
                        !.pc = IF q0 = <<>> THEN "release" ELSE "test"])
    /\ UNCHANGED <<owner, holds, fault>>
    /\ History

\* tick: the loop condition and tasks.at(i).is_expired(now)
TickTest(th) ==
    /\ At(th, "tick", "test")
    /\ LET f == frame(th)
       IN  stack' = SetFrame(th,
              IF f.i > Len(c) THEN [f EXCEPT !.pc = "sort"]
              ELSE IF is_expired(c[f.i], last_tick)
                   THEN [f EXCEPT !.t = c[f.i].id, !.pc = "execute"]
                   ELSE [f EXCEPT !.i = f.i + 1])
    /\ UNCHANGED <<c, first_tick, last_tick, fault>>
    /\ Locked

\* tick: t.execute(now) with a work item that returns at once
TickExecute(th) ==
    /\ At(th, "tick", "execute")
    /\ c[IndexOf(c, frame(th).t)].work = "none"
    /\ stack' = SetFrame(th, [frame(th) EXCEPT !.pc = "recompute",
                                               !.fired = Append(@, frame(th).t)])
    /\ UNCHANGED <<c, first_tick, last_tick, fault>>
    /\ Locked

\* tick: t.execute(now) with a work item that calls add_schedule or
\* remove_schedule on the engine
TickExecuteCall(th) ==
    /\ At(th, "tick", "execute")
    /\ LET f == frame(th)
           w == c[IndexOf(c, f.t)].work
           g == [f EXCEPT !.pc = "recompute", !.fired = Append(@, f.t),
                          !.calls = f.calls + 1]
       IN  /\ w \in {"add_schedule", "remove_schedule"}
           /\ stack' = [stack EXCEPT ![th] =
                 Append([@ EXCEPT ![Len(@)] = g],
                        Frame(w, "lock"))]
    /\ UNCHANGED <<c, first_tick, last_tick, fault>>
    /\ Locked

\* tick: t.execute(now) with a work item that throws: the exception leaves
\* tick, which has no handler and no scope guard
TickExecuteThrow(th) ==
    /\ At(th, "tick", "execute")
    /\ c[IndexOf(c, frame(th).t)].work = "throw"
    /\ stack' = [stack EXCEPT ![th] = <<>>]
    /\ UNCHANGED <<c, first_tick, last_tick, fault>>
    /\ Locked

\* tick: t.calculate_next(now + 1s), tasks.remove(t), res++, i++, with t the
\* task the reference refers to
TickRecompute(th) ==
    /\ At(th, "tick", "recompute")
    /\ frame(th).t \in Ids(c)
    /\ LET f == frame(th)
           k == IndexOf(c, f.t)
           u == calculate_next(c[k], last_tick + OneSecond)
           q1 == [c EXCEPT ![k] = u]
       IN  /\ c' = IF u.valid THEN q1 ELSE remove(q1, u.name)
           /\ stack' = SetFrame(th, [f EXCEPT !.res = f.res + 1, !.i = f.i + 1,
                                              !.pc = "test"])
    /\ UNCHANGED <<first_tick, last_tick, fault>>
    /\ Locked

\* tick: the same with t a reference to a Task that was erased from the queue
\* and destroyed.  What calculate_next returns and the name tasks.remove(t)
\* reads are whatever the freed memory holds.
TickRecomputeFreed(th) ==
    /\ At(th, "tick", "recompute")
    /\ frame(th).t \notin Ids(c)
    /\ fault' = TRUE
    /\ \E ok \in BOOLEAN, name \in Names \cup {""} :
          c' = IF ok THEN c ELSE remove(c, name)
    /\ stack' = SetFrame(th, [frame(th) EXCEPT !.res = frame(th).res + 1,
                                               !.i = frame(th).i + 1, !.pc = "test"])
    /\ UNCHANGED <<first_tick, last_tick>>
    /\ Locked

\* tick: tasks.sort() if a task was executed
TickSort(th) ==
    /\ At(th, "tick", "sort")
    /\ c' \in tick_sort(c, frame(th).res)
    /\ stack' = SetFrame(th, [frame(th) EXCEPT !.pc = "release"])
    /\ UNCHANGED <<first_tick, last_tick, fault>>
    /\ Locked

InitSteps == Init /\ clock = 1

NextSteps ==
    \/ \E th \in Threads, o \in Operations : Call(th, o)
    \/ \E th \in Threads :
          \/ LockQueue(th)
          \/ ReleaseQueue(th)
          \/ AddPush(th)
          \/ AddSort(th)
          \/ Remove(th)
          \/ Clear(th)
          \/ Recalculate(th)
          \/ Read(th)
          \/ TickDrift(th)
          \/ TickTest(th)
          \/ TickExecute(th)
          \/ TickExecuteCall(th)
          \/ TickExecuteThrow(th)
          \/ TickRecompute(th)
          \/ TickRecomputeFreed(th)
          \/ TickSort(th)

SpecSteps == InitSteps /\ [][NextSteps]_vars

----------------------------------------------------------------------------
(* What the rule says, stated apart from calculate_from *)

IsOccurrence(cron, x) == x >= 0 /\ x % cron.period = 0 /\ x <= cron.last

\* x is the earliest occurrence of cron strictly after t
EarliestAfter(cron, t, x) ==
    /\ x > t
    /\ IsOccurrence(cron, x)
    /\ \A y \in (t + 1) .. (x - 1) : ~IsOccurrence(cron, y)

\* cron has an occurrence strictly after t
HasOccurrenceAfter(cron, t) ==
    \E x \in (t + 1) .. (t + cron.period) : IsOccurrence(cron, x)

UniqueNames(q) == \A i, j \in 1 .. Len(q) : q[i].name = q[j].name => i = j

----------------------------------------------------------------------------
(* C1 *)

\* C1: every task that is expired when the execution pass of a tick begins is
\* executed in that tick, also when the pass retires another expired task.
C1_ExpiredAllExecuted ==
    op = "tick" => (started \subseteq Range(fired) /\ ret >= Cardinality(started))

----------------------------------------------------------------------------
(* C2 *)

\* C2: a tick that took effect at its own time t, followed (with no other
\* operation between) by a tick at t' with |t' - t| < 1 second: the second
\* tick executes nothing and returns 0.
C2_DebouncedTickIdle ==
    [][(op = "tick" /\ last_tick = clock /\ op' = "tick"
            /\ Abs(clock' - clock) < OneSecond)
        => (ret' = 0 /\ fired' = <<>> /\ last_tick' = last_tick)]_vars

----------------------------------------------------------------------------
(* C3 *)

\* C3 as stated: while every two consecutive tick times differ by less than
\* 3 hours, a task that ran is not executed again before the time a tick goes
\* by has reached the occurrence it was given when it ran.
C3_NoEarlyRefireSmallSteps ==
    [][(op' = "tick" /\ small_steps')
        => \A k \in 1 .. Len(fired') : c[fired'[k]].promised <= last_tick']_vars

\* C3 amended: while every tick after the first goes by a time that differs
\* from last_tick by less than 3 hours, a task that ran is not executed again
\* before the time a tick goes by has reached the occurrence it was given
\* when it ran.
C3_NoEarlyRefireSmallDrift ==
    [][(op' = "tick" /\ small_drift')
        => \A k \in 1 .. Len(fired') : c[fired'[k]].promised <= last_tick']_vars

\* a task ran, then the clock moved back by less than 3 hours and a tick left it alone
C3_Witness ==
    /\ op = "tick"
    /\ small_drift
    /\ fired = <<>>
    /\ \E i \in 1 .. Len(c) :
          /\ c[i].valid
          /\ c[i].promised = c[i].next_schedule
          /\ c[i].promised - last_tick > 2 * c[i].schedule.period

----------------------------------------------------------------------------
(* C4 *)

\* C4: after a tick that found |now - last_tick| >= 3 hours, the next_fire of
\* every queued task is the earliest occurrence of its rule after the new
\* now, and a task left without next_fire has a rule with no occurrence after it.
C4_RecomputedFromNewNow ==
    (op = "tick" /\ drift) =>
        \A i \in 1 .. Len(c) :
            IF c[i].valid
            THEN EarliestAfter(c[i].schedule, last_tick, c[i].next_schedule)
            ELSE ~HasOccurrenceAfter(c[i].schedule, last_tick)

\* a tick three hours or more before the last one, with a task queued that
\* had its next occurrence after the old time
C4_Witness ==
    /\ op = "tick"
    /\ drift
    /\ clock < ThreeHours
    /\ \E i \in 1 .. Len(c) : c[i].valid /\ c[i].next_schedule < ThreeHours

----------------------------------------------------------------------------
(* C5 *)

\* C5: after every public operation the queue is sorted by next_fire ascending.
C5_QueueSorted == Sorted(c)

----------------------------------------------------------------------------
(* C6 *)

\* C6: with a non-empty queue, time_until_next is the least time to expiry
\* among all queued tasks.
C6_NextIsMinimum ==
    c # <<>> => \A i \in 1 .. Len(c) : time_until_next <= time_until_expiry(c[i], clock)

----------------------------------------------------------------------------
(* C7 *)

\* C7: no two queued tasks have the same name.
C7_UniqueNames == UniqueNames(c)

----------------------------------------------------------------------------
(* C8 *)

\* C8: add_schedule with a rule string that fails validation returns failure
\* and leaves the queue, first_tick and last_tick as they were.
C8_InvalidRuleNoChange ==
    [][\A name \in Names, schedule \in Schedules :
          (AddSchedule(name, schedule) /\ ~create(schedule).valid)
              => (ret' = FALSE /\ c' = c /\ first_tick' = first_tick
                    /\ last_tick' = last_tick)]_vars

\* an invalid rule was refused while tasks were queued
C8_Witness == op = "add_schedule" /\ ret = FALSE /\ c # <<>>

----------------------------------------------------------------------------
(* C9 *)

\* the name of the first entry of m, in iteration order, whose rule is invalid
FirstInvalid(m) ==
    LET es == Entries(m)
        k == CHOOSE i \in 1 .. Len(es) :
                /\ ~create(m[es[i]]).valid
                /\ \A j \in 1 .. i - 1 : create(m[es[j]]).valid
    IN  es[k]

\* x is the task the entry of name n is to become
IsNewTask(m, n, now, x) ==
    /\ x.name = n
    /\ x.schedule = create(m[n])
    /\ x.valid
    /\ x.promised = 0
    /\ EarliestAfter(x.schedule, now, x.next_schedule)

Count(q, x) == Cardinality({i \in 1 .. Len(q) : q[i] = x})

\* C9: in every state and for every mapping m, bulk add_schedule with an
\* invalid entry inserts nothing and reports the first invalid entry; with all
\* entries valid it reports (true, "", ""), inserts exactly the tasks that
\* have a future occurrence, and leaves the queue sorted if it inserted any.
C9_BulkAllOrNothing ==
    \A m \in Maps :
        LET r == add_schedules(c, clock, m)
        IN  IF \E n \in DOMAIN m : ~create(m[n]).valid
            THEN /\ r.qs = {c}
                 /\ r.res = <<FALSE, FirstInvalid(m), m[FirstInvalid(m)]>>
            ELSE LET new == {n \in DOMAIN m : HasOccurrenceAfter(create(m[n]), clock)}
                 IN  /\ r.res = <<TRUE, "", "">>
                     /\ r.qs # {}
                     /\ \A q \in r.qs :
                           /\ Len(q) = Len(c) + Cardinality(new)
                           /\ \A x \in Range(c) \cup Range(q) :
                                 Count(q, x) = Count(c, x)
                                     + Cardinality({n \in new : IsNewTask(m, n, clock, x)})
                           /\ IF new = {} THEN q = c ELSE Sorted(q)

\* a batch whose second entry is invalid was refused while a task was queued
C9_Witness ==
    op = "add_schedules" /\ ret = <<FALSE, "b", "malformed">> /\ c # <<>>

----------------------------------------------------------------------------
(* C10 *)

\* C10: the tasks a tick removes from the queue are exactly the tasks it
\* executed and whose recomputation failed.
C10_RetiredRemoved == op = "tick" => removed = retired

----------------------------------------------------------------------------
(* C11 *)

\* C11: a thread that is in no call of the engine does not hold the queue
\* lock: tick has released it on whichever path it was left, also when a work
\* item threw.
C11_LockReleasedOnExit == \A th \in Threads : stack[th] = <<>> => owner # th

----------------------------------------------------------------------------
(* C12 *)

\* thread th is at a step that reads or writes the task collection
InQueue(th) == \E k \in 1 .. Len(stack[th]) : stack[th][k].pc \notin {"lock", "release"}

\* C12: with Locker, a thread at a step of a public operation that reads or
\* writes the task collection holds the lock, and no other thread is at such a
\* step: none sees the queue another has pushed to and not sorted, or has
\* half ticked.
C12_OneThreadInQueue ==
    \A th \in Threads :
        InQueue(th) => (owner = th /\ \A b \in Threads \ {th} : ~InQueue(b))

\* a thread has pushed a task and not sorted yet, the queue is out of order,
\* and the other thread cannot lock it
C12_Witness ==
    \E th \in Threads :
        /\ At(th, "add_schedule", "sort")
        /\ ~Sorted(c)
        /\ \A b \in Threads \ {th} : stack[b] = <<>> /\ ~Locker_lock(owner, b)

----------------------------------------------------------------------------
(* C13 *)

\* with this step the tick that the host called on thread th returns
TickReturns(th) ==
    /\ Len(stack[th]) = 1
    /\ frame(th).op = "tick"
    /\ frame(th).pc = "release"
    /\ stack'[th] = <<>>

\* C13: the lock_queue of a call made by a work item never has to wait, and
\* when a tick whose work items called add_schedule or remove_schedule
\* returns, the lock is fully released (hold count zero).
C13_ReentrantCalls ==
    /\ [](\A th \in Threads :
             (stack[th] # <<>> /\ frame(th).pc = "lock") => Locker_lock(owner, th))
    /\ [][\A th \in Threads :
             (TickReturns(th) /\ frame(th).calls > 0) => (holds' = 0 /\ owner' = 0)]_vars

----------------------------------------------------------------------------
(* C18 *)

\* C18: the pass never uses a task that was removed from the queue, and when
\* a tick whose work items called add_schedule or remove_schedule returns,
\* every task that was expired when the pass began and is still queued was
\* executed exactly once.
C18_WorkCallsKeepPass ==
    /\ [](~fault)
    /\ [][\A th \in Threads :
             (TickReturns(th) /\ frame(th).calls > 0) =>
                 \A id \in frame(th).started :
                     id \in Ids(c) =>
                         Cardinality({k \in 1 .. Len(frame(th).fired) :
                                         frame(th).fired[k] = id}) = 1]_vars

----------------------------------------------------------------------------
(* C14 *)

\* C14: remove_schedule(name) leaves the queue as it was if no queued task has
\* the name; otherwise it removes exactly the first task of that name and
\* leaves every other task, in the same order.
C14_RemoveFirstByName ==
    [][\A name \in Names :
          RemoveSchedule(name) =>
              IF \A i \in 1 .. Len(c) : c[i].name # name
              THEN c' = c
              ELSE \E k \in 1 .. Len(c) :
                      /\ c[k].name = name
                      /\ \A j \in 1 .. (k - 1) : c[j].name # name
                      /\ Len(c') = Len(c) - 1
                      /\ \A j \in 1 .. (k - 1) : c'[j] = c[j]
                      /\ \A j \in k .. Len(c') : c'[j] = c[j + 1]]_vars

\* remove_schedule returned and left a task queued
C14_Witness == op = "remove_schedule" /\ c # <<>>

----------------------------------------------------------------------------
(* C15 *)

\* the tasks add_schedule could queue at the time `now`
Queueable(now) ==
    {t \in {calculate_next(NewTask(n, create(s)), now) : n \in Names, s \in Schedules} :
        t.valid}

\* C15: on an empty queue time_until_next returns a duration larger than the
\* time to expiry of any task that could be queued.
C15_EmptySentinelLargest ==
    (op = "time_until_next" /\ c = <<>>) =>
        \A t \in Queueable(clock) : ret > time_until_expiry(t, clock)

----------------------------------------------------------------------------
(* C16 *)

\* C16: a tick executes no task twice, and every task it executed and left in
\* the queue has a next_fire after the time the tick went by.
C16_OnceAndLater ==
    [][op' = "tick" =>
          LET now == last_tick'
              q0 == drift_correct(c, first_tick, now, last_tick)
              r == tick_pass(q0, now)
          IN  /\ fired' = r.fired
              /\ \A j, k \in 1 .. Len(fired') : fired'[j] = fired'[k] => j = k
              /\ \A k \in 1 .. Len(r.q) :
                    r.pos[k] \in Range(fired') =>
                        r.q[k].valid /\ r.q[k].next_schedule > now]_vars

----------------------------------------------------------------------------
(* C17 *)

\* C17: the tasks a tick executes are executed in ascending order of the
\* next_fire they had when the execution pass began.
C17_AscendingExecution ==
    [][op' = "tick" =>
          LET q0 == drift_correct(c, first_tick, last_tick', last_tick)
          IN  \A j, k \in 1 .. Len(fired') :
                  j < k => q0[fired'[j]].next_schedule <= q0[fired'[k]].next_schedule]_vars

----------------------------------------------------------------------------
(* C19 *)

\* C19: after every public operation every queued task has a valid next_fire.
C19_QueuedTasksValid == \A i \in 1 .. Len(c) : c[i].valid

----------------------------------------------------------------------------
(* C20 *)

\* C20: add_schedule returns success exactly when the rule is valid; a valid
\* rule with no occurrence after clock.now() leaves the queue as it was; a
\* valid rule with one adds exactly one task, whose next_fire is the earliest
\* occurrence after clock.now().
C20_AddResult ==
    [][\A name \in Names, schedule \in Schedules :
          AddSchedule(name, schedule) =>
              LET cron == create(schedule)
                  m == [n \in {name} |-> schedule]
              IN  /\ ret' = cron.valid
                  /\ IF cron.valid /\ HasOccurrenceAfter(cron, clock)
                     THEN /\ Len(c') = Len(c) + 1
                          /\ \E k \in 1 .. Len(c') :
                                /\ IsNewTask(m, name, clock, c'[k])
                                /\ \A x \in Range(c) \cup Range(c') :
                                      Count(erase(c', k), x) = Count(c, x)
                     ELSE c' = c]_vars

\* a valid rule with no occurrence left was accepted and nothing was queued
C20_Witness ==
    /\ op = "add_schedule"
    /\ ret = TRUE
    /\ c = <<>>
    /\ \E s \in Schedules : create(s).valid /\ ~HasOccurrenceAfter(create(s), clock)

====
